---- MODULE Spec2Model ----
(***************************************************************************)
(* A model of the Notion standup extractor (src/src/get_standups.py):      *)
(* the paginated database query (fetch_done_pages), the recursive          *)
(* block-tree traversal (get_all_blocks_recursive), the type-dispatched    *)
(* content extractor (extract_block_content), the filtered per-page entry  *)
(* (extract_simple_content) and the driver (run, save_to_json, main).      *)
(*                                                                         *)
(* The remote API is the environment.  It holds a finite forest: the       *)
(* nodes whose parent is the database are the pages with Status = Done,    *)
(* every other node is a block.  It serves a children list in batches of   *)
(* pageSize items; every request either succeeds or fails.                 *)
(***************************************************************************)
EXTENDS Integers, Sequences, FiniteSets, TLC

\* ------------------------------------------------------------------ bounds
\* Largest number of nodes (pages and blocks together) of a remote forest.
MaxNodes == 5
\* Largest batch size the remote API serves per response.
MaxPageSize == 2
\* Largest number of children of one of the three siblings of InitSiblings.
MaxKids == 2
\* Largest number of runs of a rich_text array handed to the extractor.
MaxRuns == 2
\* Largest number of nodes of a forest served by a remote that is not well
\* formed, and the number of requests after which such a run is cut off.
MaxLooseNodes == 4
MaxRequests == 5

\* --------------------------------------------------------------- constants
\* The id of the database: the parent of every page.
Database == 0
\* Python's None for a cursor: no next_cursor in a response, no start_cursor
\* in a request.  A cursor token is the (positive) position the next batch
\* starts at; the client never looks inside it.
None == 0
\* The empty string as a cursor.
EmptyCursor == -1
\* A key that a JSON object does not hold.
Missing == "<missing>"

Min(a, b) == IF a < b THEN a ELSE b

\* -------------------------------------------------------------- raw blocks
\* A raw block is [id, type, has_children, items]: items is the sequence of
\* the block's other keys in enumeration order, each [key, value], and a
\* value is [kind, has_rich_text, rich_text, has_checked, checked] with kind
\* "dict" (a JSON object) or "scalar" (anything else).  A rich-text run is
\* [has_plain_text, plain_text].
Run(t) == [has_plain_text |-> TRUE, plain_text |-> t]

RunNoText == [has_plain_text |-> FALSE, plain_text |-> ""]

Scalar ==
    [kind |-> "scalar", has_rich_text |-> FALSE, rich_text |-> <<>>,
     has_checked |-> FALSE, checked |-> FALSE]

Dict(rt) ==
    [kind |-> "dict", has_rich_text |-> TRUE, rich_text |-> rt,
     has_checked |-> FALSE, checked |-> FALSE]

DictNoRichText ==
    [kind |-> "dict", has_rich_text |-> FALSE, rich_text |-> <<>>,
     has_checked |-> FALSE, checked |-> FALSE]

ToDoDict(rt, c) ==
    [kind |-> "dict", has_rich_text |-> TRUE, rich_text |-> rt,
     has_checked |-> TRUE, checked |-> c]

Item(k, v) == [key |-> k, value |-> v]

KnownTypes ==
    {"to_do", "paragraph", "heading_1", "heading_2", "heading_3",
     "bulleted_list_item", "numbered_list_item", "toggle", "quote", "code",
     "callout"}

\* ---------------------------------------------------- extract_block_content
\* An exception leaving a function.
Raise(e) == [exception |-> e]

Raised(r) == "exception" \in DOMAIN r

\* dict.get(key, default) on the items of a raw block: the value of the key,
\* or Missing when the block does not hold it.
ItemIndex(items, k) ==
    IF \E j \in 1..Len(items) : items[j].key = k
    THEN CHOOSE j \in 1..Len(items) :
            /\ items[j].key = k
            /\ \A l \in 1..(j - 1) : items[l].key # k
    ELSE 0

\* text.get("plain_text", "")
PlainText(text) == IF text.has_plain_text THEN text.plain_text ELSE ""

\* A bug: " ".join(...), a separator between the runs.
RECURSIVE JoinWithSpace(_)
JoinWithSpace(rich_text) ==
    IF rich_text = <<>> THEN ""
    ELSE IF Len(rich_text) = 1 THEN PlainText(Head(rich_text))
         ELSE PlainText(Head(rich_text)) \o " " \o JoinWithSpace(Tail(rich_text))

\* "".join([text.get("plain_text", "") for text in rich_text])
RECURSIVE JoinPlainText(_)
JoinPlainText(rich_text) ==
    IF rich_text = <<>> THEN ""
    ELSE PlainText(Head(rich_text)) \o JoinPlainText(Tail(rich_text))

\* A bug: block.get(block_type) with no default, None when the key is absent.
TypeDataNoDefault(block, block_type) ==
    LET j == ItemIndex(block.items, block_type)
    IN  IF j = 0 THEN Scalar ELSE block.items[j].value

\* x_data = block.get(block_type, {}): the sub-object keyed by the type, the
\* empty dict when the key is absent.
TypeData(block, block_type) ==
    LET j == ItemIndex(block.items, block_type)
    IN  IF j = 0 THEN DictNoRichText ELSE block.items[j].value

\* x_data.get("rich_text", [])
RichTextOf(data) == IF data.has_rich_text THEN data.rich_text ELSE <<>>

\* to_do_data.get("checked", False), kept as Python prints it.
CheckedOf(data) ==
    IF data.has_checked /\ data.checked THEN "True" ELSE "False"

\* A bug: the checked flag of a to_do is written into its content.
ToDoContentMarksChecked(data) ==
    (IF data.has_checked /\ data.checked THEN "[x] " ELSE "[ ] ") \o
    JoinPlainText(RichTextOf(data))

\* content = "".join(...) of the to_do branch.
ToDoContent(data) == JoinPlainText(RichTextOf(data))

\* A bug: the scan stops at the first dict holding rich_text, whether or not
\* it has any text (the `if content:` test before the break is missing).
RECURSIVE ScanItemsTakesFirstArray(_)
ScanItemsTakesFirstArray(items) ==
    IF items = <<>> THEN ""
    ELSE LET value == Head(items).value
         IN  IF value.kind = "dict" /\ value.has_rich_text
             THEN JoinPlainText(RichTextOf(value))
             ELSE ScanItemsTakesFirstArray(Tail(items))

\* The else branch: the first key, in enumeration order, whose value is a
\* dict holding rich_text that joins to a non-empty string; "" when no key
\* has one.
RECURSIVE ScanItems(_)
ScanItems(items) ==
    IF items = <<>> THEN ""
    ELSE LET value == Head(items).value
             content == JoinPlainText(RichTextOf(value))
         IN  IF value.kind = "dict" /\ value.has_rich_text /\ content # ""
             THEN content
             ELSE ScanItems(Tail(items))

BlockType(block) == IF block.type = Missing THEN "unknown" ELSE block.type

extract_block_content(block) ==
    LET block_type == BlockType(block)
        extracted == [id |-> block.id, type |-> block_type, content |-> "",
                      checked |-> "None", has_children |-> block.has_children]
        data == TypeData(block, block_type)
    IN  IF block_type \in KnownTypes
        THEN IF data.kind # "dict"
             THEN Raise("AttributeError")
             ELSE IF block_type = "to_do"
                  THEN [extracted EXCEPT
                            !.content = ToDoContent(data),
                            !.checked = CheckedOf(data)]
                  ELSE [extracted EXCEPT
                            !.content = JoinPlainText(RichTextOf(data))]
        ELSE [extracted EXCEPT !.content = ScanItems(block.items)]

\* --------------------------------------------------- extract_simple_content
\* A bug: toggle blocks are let through too.
SimpleTypesWithToggle ==
    {"to_do", "bulleted_list_item", "numbered_list_item", "paragraph",
     "heading_1", "heading_2", "heading_3", "toggle"}

\* A bug: a list of six types, heading_3 left out.
SimpleTypesWithoutHeading3 ==
    {"to_do", "bulleted_list_item", "numbered_list_item", "paragraph",
     "heading_1", "heading_2"}

\* The block types whose content goes to `contents`.
SimpleTypes ==
    {"to_do", "bulleted_list_item", "numbered_list_item", "paragraph",
     "heading_1", "heading_2", "heading_3"}

\* A bug: the `if not content: continue` test is missing.
KeepContentIgnoresEmpty(content, block_type) == block_type \in SimpleTypes

\* if not content: continue; if block_type in [...]: contents.append(content)
KeepContent(content, block_type) ==
    content # "" /\ block_type \in SimpleTypes

\* One pass of the for loop on an extracted record: the content is appended
\* to contents or the block is passed over.
AppendContent(contents, block_content) ==
    IF KeepContent(block_content.content, block_content.type)
    THEN Append(contents, block_content.content)
    ELSE contents

\* The for loop over the flattened raw blocks.
RECURSIVE SimpleContents(_)
SimpleContents(blocks) ==
    IF blocks = <<>> THEN <<>>
    ELSE LET block_content == extract_block_content(Head(blocks))
         IN  IF KeepContent(block_content.content, block_content.type)
             THEN <<block_content.content>> \o SimpleContents(Tail(blocks))
             ELSE SimpleContents(Tail(blocks))

\* ---------------------------------------------------------------- raw pages
\* A raw page is [id, name, project]: the "Name" and "Project" entries of its
\* properties, each [present, type, ...].
NameProp(ty, runs) == [present |-> TRUE, type |-> ty, title |-> runs]

NoNameProp == [present |-> FALSE, type |-> Missing, title |-> <<>>]

ProjectProp(ty, isset, nm) ==
    [present |-> TRUE, type |-> ty, has_select |-> isset, name |-> nm]

NoProjectProp ==
    [present |-> FALSE, type |-> Missing, has_select |-> FALSE, name |-> Missing]

\* A bug: the title is the join of all the runs, as block content is.
ExtractTitleJoinsRuns(name_prop) ==
    IF name_prop.present /\ name_prop.type = "title" /\ name_prop.title # <<>>
    THEN JoinPlainText(name_prop.title)
    ELSE ""

\* title_array[0].get("plain_text", "") if title_array else "", under
\* name_prop.get("type") == "title".
ExtractTitle(name_prop) ==
    IF name_prop.present /\ name_prop.type = "title" /\ name_prop.title # <<>>
    THEN PlainText(name_prop.title[1])
    ELSE ""

\* A bug: the null select value is passed on (select_obj.get("name") if
\* select_obj else None).
ExtractProjectNameKeepsNull(project_prop) ==
    IF project_prop.present /\ project_prop.type = "select"
    THEN IF project_prop.has_select /\ project_prop.name # Missing
         THEN project_prop.name
         ELSE Missing
    ELSE ""

\* select_obj.get("name", "") if select_obj else "", under
\* project_prop.get("type") == "select".
ExtractProjectName(project_prop) ==
    IF /\ project_prop.present
       /\ project_prop.type = "select"
       /\ project_prop.has_select
       /\ project_prop.name # Missing
    THEN project_prop.name
    ELSE ""

\* ------------------------------------------------------------ the remote API
VARIABLES
    parent,           \* remote: parent[n] is the parent of node n (Database for a page)
    pageSize,         \* remote: the number of items per response
    shift,            \* remote: which raw block each node holds
    wellFormed,       \* remote: every response with has_more true has a cursor
    pc,               \* where run() is: "fetch", "run", "save", "done", "exit"
                      \* (or "extract", "extracted", "filtered" for one block)
    all_pages,        \* fetch_done_pages: the pages accumulated so far
    has_more,         \* fetch_done_pages: the loop condition
    start_cursor,     \* fetch_done_pages: the cursor of the next request
    raw_pages,        \* run: what fetch_done_pages returned
    i,                \* run: the index in raw_pages of the page in hand
    stack,            \* the frames of get_all_blocks_recursive, outermost first
    processed_pages,  \* run: the entries built so far
    flat,             \* history: what get_all_blocks_recursive returned, per page
    saved,            \* history: the arguments of the save_to_json calls
    reqlog,           \* history: every request issued, with its response
    in_block,         \* the raw block handed to extract_block_content
    out_block,        \* what extract_block_content returned for it
    details           \* the call of extract_page_details in hand, if any

\* The summarizer (summarize_standups.py).
VARIABLES
    standups,             \* main: what load_standups read from the input file
    sumpc,                \* where main() is: "idle", "start", "loop",
                          \* "generate", "retry", "save", "done", "exit", "raised"
    si,                    \* process_standups: the index (i+1) of the standup in hand
    project_name,         \* process_standups: the project name of that standup
    summarized_standups,  \* process_standups: the entries built so far
    written,              \* history: the arguments of the save_summaries calls
    generated             \* history: the generator calls, each [standup, ok]

summarizerVars ==
    <<standups, sumpc, si, project_name, summarized_standups, written, generated>>

fetcherVars ==
    <<parent, pageSize, shift, wellFormed, details, pc, all_pages, has_more,
      start_cursor, raw_pages, i, stack, processed_pages, flat, saved, reqlog,
      in_block, out_block>>

vars == <<fetcherVars, summarizerVars>>

\* The summarizer has not been started.
SummarizerIdle ==
    /\ standups = <<>>
    /\ sumpc = "idle"
    /\ si = 1
    /\ project_name = ""
    /\ summarized_standups = <<>>
    /\ written = <<>>
    /\ generated = <<>>

Nodes == 1..Len(parent)

\* The children of node n, in the order the remote lists them.
RECURSIVE KidsFrom(_, _)
KidsFrom(n, k) ==
    IF k > Len(parent) THEN <<>>
    ELSE IF parent[k] = n THEN <<k>> \o KidsFrom(n, k + 1)
         ELSE KidsFrom(n, k + 1)

Kids(n) == KidsFrom(n, 1)

\* One response of a paginated endpoint over `list`: the batch the cursor
\* points at, whether more follow, and the cursor of the next batch.
Respond(list, cursor) ==
    LET first == IF cursor = None THEN 1 ELSE cursor
        last == Min(first + pageSize - 1, Len(list))
    IN  [results |-> SubSeq(list, first, last),
         has_more |-> last < Len(list),
         next_cursor |-> IF last < Len(list) THEN last + 1 ELSE None]

\* The responses the remote may give.  A well-formed remote gives the one
\* of Respond.  Another remote may, when it says has_more, send a null
\* next_cursor, an empty one or none at all, and may say has_more false or
\* leave has_more out although more items follow.
Responses(list, cursor) ==
    LET r == Respond(list, cursor)
    IN  IF wellFormed \/ ~r.has_more THEN {r}
        ELSE {r,
              [r EXCEPT !.next_cursor = None],
              [r EXCEPT !.next_cursor = EmptyCursor],
              [results |-> r.results, has_more |-> TRUE],
              [r EXCEPT !.has_more = FALSE, !.next_cursor = None],
              [results |-> r.results]}

\* POST /databases/{id}/query with the Status = Done filter.
QueryDatabase(cursor) == Responses(Kids(Database), cursor)

\* GET /blocks/{id}/children
ListChildren(node, cursor) == Responses(Kids(node), cursor)

\* The raw blocks the remote holds, and the one it holds for node b: the
\* nodes take consecutive entries, starting `shift` entries into the list.
BlockPalette ==
    << <<"to_do", <<Item("to_do", ToDoDict(<<Run("Fix bug")>>, TRUE))>> >>,
       <<"to_do", <<Item("to_do", ToDoDict(<<Run("Fix bug")>>, FALSE))>> >>,
       <<"toggle", <<Item("toggle", Dict(<<Run("world")>>))>> >>,
       <<"image", <<Item("parent", DictNoRichText), Item("image", Dict(<<Run("world")>>))>> >>,
       <<"paragraph", <<Item("paragraph", Dict(<<Run("Hello, "), Run("world")>>))>> >>,
       <<"paragraph", <<Item("paragraph", Dict(<<>>))>> >>,
       <<"bulleted_list_item", <<Item("id", Scalar)>> >>,
       <<"heading_1", <<Item("heading_1", Dict(<<RunNoText, Run("world")>>))>> >> >>

Shifts == 0..(Len(BlockPalette) \div 2 - 1)

RawBlock(b) ==
    LET t == BlockPalette[((b + Len(BlockPalette) - 2 + shift) % Len(BlockPalette)) + 1]
    IN  [id |-> b, type |-> t[1], has_children |-> Kids(b) # <<>>,
         items |-> t[2]]

\* The raw page the remote holds for node p.
PagePalette ==
    << <<NameProp("title", <<Run("Standup"), Run(" notes")>>),
         ProjectProp("select", TRUE, "Apollo")>>,
       <<NameProp("title", <<>>), ProjectProp("select", FALSE, Missing)>>,
       <<NoNameProp, NoProjectProp>>,
       <<NameProp("rich_text", <<Run("Standup")>>),
         ProjectProp("multi_select", TRUE, "Apollo")>>,
       <<NameProp("title", <<RunNoText, Run(" notes")>>),
         ProjectProp("select", TRUE, Missing)>> >>

RawPage(p) ==
    LET t == PagePalette[((p + shift) % Len(PagePalette)) + 1]
    IN  [id |-> p, name |-> t[1], project |-> t[2]]

\* ----------------------------------------------------------- initial states
\* The forests of n nodes, numbered breadth-first: a node's children are
\* consecutive and every parent precedes its children.
RECURSIVE Forests(_)
Forests(n) ==
    IF n = 0 THEN {<<>>}
    ELSE UNION {{Append(f, q) : q \in (IF f = <<>> THEN 0 ELSE f[Len(f)])..(n - 1)} :
                    f \in Forests(n - 1)}

AllForests == UNION {Forests(n) : n \in 0..MaxNodes}

\* The tree A[B[C,D],E] under one page: the page is node 1, A is 2, B is 3,
\* E is 4, C is 5 and D is 6.
ExampleForest == <<Database, 1, 2, 2, 3, 3>>

Rep(n, k) == [j \in 1..k |-> n]

\* One page (node 1) with three top-level blocks (2, 3, 4) that each have
\* between 1 and MaxKids children.
SiblingForests ==
    {<<Database, 1, 1, 1>> \o Rep(2, k2) \o Rep(3, k3) \o Rep(4, k4) :
        k2 \in 1..MaxKids, k3 \in 1..MaxKids, k4 \in 1..MaxKids}

\* No call is in hand.
Idle == [idle |-> TRUE]

\* run() has just called fetch_done_pages, which is at the head of its loop.
InitClient ==
    /\ pc = "fetch"
    /\ in_block = Idle
    /\ out_block = Idle
    /\ all_pages = <<>>
    /\ has_more = TRUE
    /\ start_cursor = None
    /\ raw_pages = <<>>
    /\ i = 1
    /\ stack = <<>>
    /\ processed_pages = <<>>
    /\ flat = <<>>
    /\ saved = <<>>
    /\ reqlog = <<>>

Init ==
    /\ parent \in AllForests \cup {ExampleForest}
    /\ pageSize \in 1..MaxPageSize
    /\ shift \in Shifts
    /\ wellFormed = TRUE
    /\ details = Idle
    /\ SummarizerIdle
    /\ InitClient

InitSiblings ==
    /\ parent \in SiblingForests
    /\ pageSize \in 1..MaxPageSize
    /\ shift \in Shifts
    /\ wellFormed = TRUE
    /\ details = Idle
    /\ SummarizerIdle
    /\ InitClient

\* ------------------------------------------------------------- fetch_done_pages
\* A bug: the cursor is never put into the request.
RequestCursorDropped(cursor) == None

\* if start_cursor: request_body["start_cursor"] = start_cursor
RequestCursor(cursor) ==
    IF cursor \notin {None, EmptyCursor} THEN cursor ELSE None

\* A bug: all_pages = pages, each response replacing what was accumulated.
ExtendPagesOverwrites(pages_so_far, pages) == pages

\* all_pages.extend(pages)
ExtendPages(pages_so_far, pages) == pages_so_far \o pages

\* has_more = data.get("has_more", False)
NextHasMore(data) ==
    IF "has_more" \in DOMAIN data THEN data.has_more ELSE FALSE

\* start_cursor = data.get("next_cursor")
NextCursor(data) ==
    IF "next_cursor" \in DOMAIN data THEN data.next_cursor ELSE None

\* The JSON body of the database query: the filter, and the cursor when
\* there is one.
request_body(cursor) ==
    LET filter == [property |-> "Status", status |-> [equals |-> "Done"]]
    IN  IF cursor # None
        THEN [filter |-> filter, start_cursor |-> cursor]
        ELSE [filter |-> filter]

\* The query parameters of a children request.
params(cursor) ==
    IF cursor # None THEN [start_cursor |-> cursor] ELSE <<>>

\* What is sent for a target: the database query or a children request.
RequestOf(target, cursor) ==
    IF target = Database THEN request_body(cursor) ELSE params(cursor)

\* The call a request for a target belongs to, named by the position in
\* reqlog of the call's first request: the one call of fetch_done_pages, or
\* the innermost call of get_all_blocks_recursive.
CallOf(target) ==
    IF target = Database THEN 1 ELSE stack[Len(stack)].call

\* A log entry holds the request and what the client read in the response.
LogOK(target, cursor, data) ==
    [target |-> target, cursor |-> cursor, ok |-> TRUE,
     body |-> RequestOf(target, cursor), call |-> CallOf(target),
     results |-> data.results, has_more |-> NextHasMore(data),
     next_cursor |-> NextCursor(data)]

LogFail(target, cursor) ==
    [target |-> target, cursor |-> cursor, ok |-> FALSE,
     body |-> RequestOf(target, cursor), call |-> CallOf(target),
     results |-> <<>>, has_more |-> FALSE, next_cursor |-> None]

\* A run against a remote that is not well formed is cut off after
\* MaxRequests requests.
CanRequest == wellFormed \/ Len(reqlog) < MaxRequests

\* One pass of the while loop whose request succeeds.
QueryOK ==
    /\ pc = "fetch"
    /\ has_more
    /\ CanRequest
    /\ LET cursor == RequestCursor(start_cursor)
       IN  \E data \in QueryDatabase(cursor) :
               /\ all_pages' = ExtendPages(all_pages, data.results)
               /\ has_more' = NextHasMore(data)
               /\ start_cursor' = NextCursor(data)
               /\ reqlog' = Append(reqlog, LogOK(Database, cursor, data))
    /\ UNCHANGED <<in_block, out_block, parent, pageSize, shift, wellFormed, details, summarizerVars, pc, raw_pages, i, stack, processed_pages,
                   flat, saved>>

\* A bug: the handler breaks out of the loop, as the children handler does,
\* and fetch_done_pages returns what it has.
QueryFailBreaks ==
    /\ pc = "fetch"
    /\ has_more
    /\ reqlog' = Append(reqlog, LogFail(Database, RequestCursor(start_cursor)))
    /\ has_more' = FALSE
    /\ UNCHANGED <<in_block, out_block, parent, pageSize, shift, wellFormed, details, summarizerVars, pc, all_pages,
                   start_cursor, raw_pages, i, stack, processed_pages, flat,
                   saved>>

\* The request fails (a non-success status, a body that is not JSON): both
\* are a RequestException, and the handler calls sys.exit(1).
QueryFail ==
    /\ pc = "fetch"
    /\ has_more
    /\ CanRequest
    /\ reqlog' = Append(reqlog, LogFail(Database, RequestCursor(start_cursor)))
    /\ pc' = "exit"
    /\ UNCHANGED <<in_block, out_block, parent, pageSize, shift, wellFormed, details, summarizerVars, all_pages, has_more, start_cursor,
                   raw_pages, i, stack, processed_pages, flat, saved>>

\* A bug: with no page run() returns at once, writing nothing
\* (if not raw_pages: return "").
FetchReturnSkipsEmptySave ==
    /\ pc = "fetch"
    /\ ~has_more
    /\ raw_pages' = all_pages
    /\ pc' = IF all_pages = <<>> THEN "done" ELSE "run"
    /\ UNCHANGED <<in_block, out_block, parent, pageSize, shift, wellFormed, details, summarizerVars,
                   all_pages, has_more, start_cursor, i, stack,
                   processed_pages, flat, saved, reqlog>>

\* The loop ends and fetch_done_pages returns all_pages to run(), which goes
\* to save_to_json([]) when the list is empty and to its for loop otherwise.
FetchReturn ==
    /\ pc = "fetch"
    /\ ~has_more
    /\ raw_pages' = all_pages
    /\ pc' = IF all_pages = <<>> THEN "save" ELSE "run"
    /\ UNCHANGED <<in_block, out_block, parent, pageSize, shift, wellFormed, details, summarizerVars, all_pages, has_more, start_cursor, i,
                   stack, processed_pages, flat, saved, reqlog>>

\* ----------------------------------------------------- get_all_blocks_recursive
\* A call of get_all_blocks_recursive(page_id) at the head of its loop.
NewFrame(page_id) ==
    [page_id |-> page_id, call |-> Len(reqlog) + 1,
     all_blocks |-> <<>>, has_more |-> TRUE,
     start_cursor |-> None, phase |-> "head", blocks |-> <<>>,
     data_has_more |-> FALSE, data_next_cursor |-> None]

Top == stack[Len(stack)]

SetTop(f) == [stack EXCEPT ![Len(stack)] = f]

\* all_blocks.append(block)
AppendBlock(blocks_so_far, block) == Append(blocks_so_far, block)

\* A bug: the child's blocks are put in front of what was gathered.
ExtendBlocksInFront(blocks_so_far, child_blocks) == child_blocks \o blocks_so_far

\* all_blocks.extend(child_blocks)
ExtendBlocks(blocks_so_far, child_blocks) == blocks_so_far \o child_blocks

\* block.get("has_children", False)
HasChildren(block) == RawBlock(block).has_children

\* run()'s for loop calls extract_simple_content(page), which calls
\* get_all_blocks_recursive(page_id).
StartPage ==
    /\ pc = "run"
    /\ stack = <<>>
    /\ i <= Len(raw_pages)
    /\ stack' = <<NewFrame(RawPage(raw_pages[i]).id)>>
    /\ UNCHANGED <<in_block, out_block, parent, pageSize, shift, wellFormed, details, summarizerVars, pc, all_pages, has_more, start_cursor,
                   raw_pages, i, processed_pages, flat, saved, reqlog>>

\* The request at the head of the loop succeeds: the for loop starts.
ChildrenOK ==
    /\ pc = "run"
    /\ stack # <<>>
    /\ Top.phase = "head"
    /\ Top.has_more
    /\ CanRequest
    /\ LET cursor == RequestCursor(Top.start_cursor)
       IN  \E data \in ListChildren(Top.page_id, cursor) :
               /\ stack' = SetTop([Top EXCEPT !.phase = "body",
                                              !.blocks = data.results,
                                              !.data_has_more = NextHasMore(data),
                                              !.data_next_cursor = NextCursor(data)])
               /\ reqlog' = Append(reqlog, LogOK(Top.page_id, cursor, data))
    /\ UNCHANGED <<in_block, out_block, parent, pageSize, shift, wellFormed, details, summarizerVars, pc, all_pages, has_more, start_cursor,
                   raw_pages, i, processed_pages, flat, saved>>

\* A bug: the handler gives up what the call had gathered (return []).
ChildrenFailDropsGathered ==
    /\ pc = "run"
    /\ stack # <<>>
    /\ Top.phase = "head"
    /\ Top.has_more
    /\ stack' = SetTop([Top EXCEPT !.phase = "broke", !.all_blocks = <<>>])
    /\ reqlog' = Append(reqlog, LogFail(Top.page_id, RequestCursor(Top.start_cursor)))
    /\ UNCHANGED <<in_block, out_block, parent, pageSize, shift, wellFormed, details, summarizerVars, pc, all_pages,
                   has_more, start_cursor, raw_pages, i, processed_pages, flat,
                   saved>>

\* A bug: the exception is not caught in the call that made the request but
\* leaves every enclosing call too, each returning what it has.
ChildrenFailUnwinds ==
    /\ pc = "run"
    /\ stack # <<>>
    /\ Top.phase = "head"
    /\ Top.has_more
    /\ stack' = [d \in 1..Len(stack) |->
                    [stack[d] EXCEPT !.phase = "broke", !.blocks = <<>>]]
    /\ reqlog' = Append(reqlog, LogFail(Top.page_id, RequestCursor(Top.start_cursor)))
    /\ UNCHANGED <<in_block, out_block, parent, pageSize, shift, wellFormed, details, summarizerVars, pc, all_pages,
                   has_more, start_cursor, raw_pages, i, processed_pages, flat,
                   saved>>

\* A bug: the handler goes round the loop again (continue), repeating the
\* request that failed.
ChildrenFailRetries ==
    /\ pc = "run"
    /\ stack # <<>>
    /\ Top.phase = "head"
    /\ Top.has_more
    /\ reqlog' = Append(reqlog, LogFail(Top.page_id, RequestCursor(Top.start_cursor)))
    /\ UNCHANGED <<in_block, out_block, parent, pageSize, shift, wellFormed, details, summarizerVars, pc, all_pages,
                   has_more, start_cursor, raw_pages, i, stack, processed_pages,
                   flat, saved>>

\* A bug: the handler starts the list over (start_cursor = None; continue),
\* keeping what was gathered.
ChildrenFailRestarts ==
    /\ pc = "run"
    /\ stack # <<>>
    /\ Top.phase = "head"
    /\ Top.has_more
    /\ stack' = SetTop([Top EXCEPT !.start_cursor = None])
    /\ reqlog' = Append(reqlog, LogFail(Top.page_id, RequestCursor(Top.start_cursor)))
    /\ UNCHANGED <<in_block, out_block, parent, pageSize, shift, wellFormed, details, summarizerVars, pc, all_pages,
                   has_more, start_cursor, raw_pages, i, processed_pages, flat,
                   saved>>

\* The request fails: the handler prints and breaks out of the loop.
ChildrenFail ==
    /\ pc = "run"
    /\ stack # <<>>
    /\ Top.phase = "head"
    /\ Top.has_more
    /\ CanRequest
    /\ stack' = SetTop([Top EXCEPT !.phase = "broke"])
    /\ reqlog' = Append(reqlog, LogFail(Top.page_id, RequestCursor(Top.start_cursor)))
    /\ UNCHANGED <<in_block, out_block, parent, pageSize, shift, wellFormed, details, summarizerVars, pc, all_pages, has_more, start_cursor,
                   raw_pages, i, processed_pages, flat, saved>>

\* A bug: the call for the children is put off until the calls in hand are
\* over, so that the list in hand is finished first.
NextBlockQueuesChild ==
    /\ pc = "run"
    /\ stack # <<>>
    /\ Top.phase = "body"
    /\ Top.blocks # <<>>
    /\ LET block == Head(Top.blocks)
           f == [Top EXCEPT !.all_blocks = AppendBlock(@, block),
                            !.blocks = Tail(@)]
       IN  stack' = IF HasChildren(block)
                    THEN <<NewFrame(block)>> \o SetTop(f)
                    ELSE SetTop(f)
    /\ UNCHANGED <<in_block, out_block, parent, pageSize, shift, wellFormed, details, summarizerVars, pc, all_pages,
                   has_more, start_cursor, raw_pages, i, processed_pages, flat,
                   saved, reqlog>>

\* A bug: a depth limit; below the second level the children are not
\* fetched.
NextBlockDepthLimited ==
    /\ pc = "run"
    /\ stack # <<>>
    /\ Top.phase = "body"
    /\ Top.blocks # <<>>
    /\ LET block == Head(Top.blocks)
           f == [Top EXCEPT !.all_blocks = AppendBlock(@, block),
                            !.blocks = Tail(@)]
       IN  stack' = IF HasChildren(block) /\ Len(stack) < 2
                    THEN Append(SetTop(f), NewFrame(block))
                    ELSE SetTop(f)
    /\ UNCHANGED <<in_block, out_block, parent, pageSize, shift, wellFormed, details, summarizerVars, pc, all_pages,
                   has_more, start_cursor, raw_pages, i, processed_pages, flat,
                   saved, reqlog>>

\* One pass of the for loop: the block is appended and, when it is flagged
\* has_children, get_all_blocks_recursive is called on it.
NextBlock ==
    /\ pc = "run"
    /\ stack # <<>>
    /\ Top.phase = "body"
    /\ Top.blocks # <<>>
    /\ LET block == Head(Top.blocks)
           f == [Top EXCEPT !.all_blocks = AppendBlock(@, block),
                            !.blocks = Tail(@)]
       IN  stack' = IF HasChildren(block)
                    THEN Append(SetTop(f), NewFrame(block))
                    ELSE SetTop(f)
    /\ UNCHANGED <<in_block, out_block, parent, pageSize, shift, wellFormed, details, summarizerVars, pc, all_pages, has_more, start_cursor,
                   raw_pages, i, processed_pages, flat, saved, reqlog>>

\* A bug: the loop also stops when the response has no cursor
\* (has_more = data.get("has_more", False) and bool(data.get("next_cursor"))).
EndForStopsWithoutCursor ==
    /\ pc = "run"
    /\ stack # <<>>
    /\ Top.phase = "body"
    /\ Top.blocks = <<>>
    /\ stack' = SetTop([Top EXCEPT
                            !.phase = "head",
                            !.has_more = Top.data_has_more /\
                                         RequestCursor(Top.data_next_cursor) # None,
                            !.start_cursor = Top.data_next_cursor,
                            !.data_has_more = FALSE,
                            !.data_next_cursor = None])
    /\ UNCHANGED <<in_block, out_block, parent, pageSize, shift, wellFormed, details, summarizerVars, pc,
                   all_pages, has_more, start_cursor, raw_pages, i,
                   processed_pages, flat, saved, reqlog>>

\* The for loop is over: has_more and start_cursor are read from the response.
EndFor ==
    /\ pc = "run"
    /\ stack # <<>>
    /\ Top.phase = "body"
    /\ Top.blocks = <<>>
    /\ stack' = SetTop([Top EXCEPT !.phase = "head",
                                   !.has_more = Top.data_has_more,
                                   !.start_cursor = Top.data_next_cursor,
                                   !.data_has_more = FALSE,
                                   !.data_next_cursor = None])
    /\ UNCHANGED <<in_block, out_block, parent, pageSize, shift, wellFormed, details, summarizerVars, pc, all_pages, has_more, start_cursor,
                   raw_pages, i, processed_pages, flat, saved, reqlog>>

\* The while loop is over (has_more is false, or the handler broke out).
Returning(f) == f.phase = "broke" \/ (f.phase = "head" /\ ~f.has_more)

\* A nested call returns all_blocks, which the caller splices after the block.
ReturnToCaller ==
    /\ pc = "run"
    /\ Len(stack) > 1
    /\ Returning(Top)
    /\ LET caller == stack[Len(stack) - 1]
           rest == SubSeq(stack, 1, Len(stack) - 1)
       IN  stack' = [rest EXCEPT ![Len(rest)] =
                        [caller EXCEPT !.all_blocks = ExtendBlocks(@, Top.all_blocks)]]
    /\ UNCHANGED <<in_block, out_block, parent, pageSize, shift, wellFormed, details, summarizerVars, pc, all_pages, has_more, start_cursor,
                   raw_pages, i, processed_pages, flat, saved, reqlog>>

\* ------------------------------------------------------ extract_simple_content
RawBlocks(ids) == [j \in 1..Len(ids) |-> RawBlock(ids[j])]

AnyRaises(blocks) ==
    \E j \in 1..Len(blocks) : Raised(extract_block_content(blocks[j]))

\* The entry extract_simple_content builds from the page and its blocks.
SimpleEntry(page, blocks) ==
    [id |-> page.id,
     title |-> ExtractTitle(page.name),
     projectName |-> ExtractProjectName(page.project),
     contents |-> SimpleContents(blocks)]

\* A bug: a page whose blocks could not be fetched is left out of the
\* output (if not blocks: continue).
FinishPageSkipsEmpty ==
    /\ pc = "run"
    /\ Len(stack) = 1
    /\ Returning(Top)
    /\ LET blocks == RawBlocks(Top.all_blocks)
       IN  IF blocks = <<>>
           THEN /\ i' = i + 1
                /\ UNCHANGED <<processed_pages, flat, pc>>
           ELSE /\ processed_pages' =
                        Append(processed_pages, SimpleEntry(RawPage(raw_pages[i]), blocks))
                /\ flat' = Append(flat, Top.all_blocks)
                /\ i' = i + 1
                /\ pc' = pc
    /\ stack' = <<>>
    /\ UNCHANGED <<in_block, out_block, parent, pageSize, shift, wellFormed, details, summarizerVars, all_pages,
                   has_more, start_cursor, raw_pages, saved, reqlog>>

\* The outermost call returns to extract_simple_content, which builds the
\* entry; run() appends it to processed_pages.  An exception of the
\* extractor leaves run() and main() exits.
FinishPage ==
    /\ pc = "run"
    /\ Len(stack) = 1
    /\ Returning(Top)
    /\ LET blocks == RawBlocks(Top.all_blocks)
       IN  IF AnyRaises(blocks)
           THEN /\ pc' = "exit"
                /\ UNCHANGED <<processed_pages, flat, i>>
           ELSE /\ processed_pages' =
                        Append(processed_pages, SimpleEntry(RawPage(raw_pages[i]), blocks))
                /\ flat' = Append(flat, Top.all_blocks)
                /\ i' = i + 1
                /\ pc' = pc
    /\ stack' = <<>>
    /\ UNCHANGED <<in_block, out_block, parent, pageSize, shift, wellFormed, details, summarizerVars, all_pages, has_more, start_cursor,
                   raw_pages, saved, reqlog>>

\* ------------------------------------------------------------ run, save_to_json
\* run()'s for loop is over.
EndPages ==
    /\ pc = "run"
    /\ stack = <<>>
    /\ i > Len(raw_pages)
    /\ pc' = "save"
    /\ UNCHANGED <<in_block, out_block, parent, pageSize, shift, wellFormed, details, summarizerVars, all_pages, has_more, start_cursor,
                   raw_pages, i, stack, processed_pages, flat, saved, reqlog>>

\* What run() hands to save_to_json.
SaveArg == IF raw_pages = <<>> THEN <<>> ELSE processed_pages

\* save_to_json writes the file and returns its path, run() returns it and
\* main prints the completion message: pc = "done".
SaveOK ==
    /\ pc = "save"
    /\ saved' = Append(saved, [pages |-> SaveArg, ok |-> TRUE])
    /\ pc' = "done"
    /\ UNCHANGED <<in_block, out_block, parent, pageSize, shift, wellFormed, details, summarizerVars, all_pages, has_more, start_cursor,
                   raw_pages, i, stack, processed_pages, flat, reqlog>>

\* A bug: the handler prints the error and falls through, save_to_json
\* returns None to run() and main prints the completion message.
SaveFailReturns ==
    /\ pc = "save"
    /\ saved' = Append(saved, [pages |-> SaveArg, ok |-> FALSE])
    /\ pc' = "done"
    /\ UNCHANGED <<in_block, out_block, parent, pageSize, shift, wellFormed, details, summarizerVars, all_pages,
                   has_more, start_cursor, raw_pages, i, stack,
                   processed_pages, flat, reqlog>>

\* open or json.dump raises: save_to_json calls sys.exit(1), and the
\* SystemExit passes run() and the `except Exception` of main.
SaveFail ==
    /\ pc = "save"
    /\ saved' = Append(saved, [pages |-> SaveArg, ok |-> FALSE])
    /\ pc' = "exit"
    /\ UNCHANGED <<in_block, out_block, parent, pageSize, shift, wellFormed, details, summarizerVars, all_pages, has_more, start_cursor,
                   raw_pages, i, stack, processed_pages, flat, reqlog>>

Next ==
    \/ QueryOK
    \/ QueryFail
    \/ FetchReturn
    \/ StartPage
    \/ ChildrenOK
    \/ ChildrenFail
    \/ NextBlock
    \/ EndFor
    \/ ReturnToCaller
    \/ FinishPage
    \/ EndPages
    \/ SaveOK
    \/ SaveFail

Spec == Init /\ [][Next]_vars

\* -------------------------------------------- extract_block_content on its own
\* The rich_text arrays of at most n runs.
RunValues == {Run("Hello, "), Run("world"), RunNoText}

RECURSIVE RichTexts(_)
RichTexts(n) ==
    IF n = 0 THEN {<<>>}
    ELSE RichTexts(n - 1) \cup
         {Append(rt, r) : rt \in {x \in RichTexts(n - 1) : Len(x) = n - 1},
                          r \in RunValues}

BlockTypes == KnownTypes \cup {"image", Missing}

\* The key a block of type ty keeps its payload under.
TypeKey(ty) == IF ty = Missing THEN "data" ELSE ty

\* What the payload key may hold: a dict with or without rich_text, and for
\* a to_do its checked flag.
TypeValues(ty) ==
    {DictNoRichText} \cup
    (IF ty = "to_do"
     THEN {ToDoDict(rt, c) : rt \in RichTexts(MaxRuns), c \in BOOLEAN}
     ELSE {Dict(rt) : rt \in RichTexts(MaxRuns)})

\* What another key of the block may hold.
OtherValues == {Scalar, DictNoRichText, Dict(<<>>), Dict(<<Run("world")>>)}

ItemLists(ty) ==
    {<<>>} \cup
    {<<Item(TypeKey(ty), v)>> : v \in TypeValues(ty)} \cup
    {<<Item("other", w)>> : w \in OtherValues} \cup
    {<<Item(TypeKey(ty), v), Item("other", w)>> :
        v \in TypeValues(ty), w \in OtherValues} \cup
    {<<Item("other", w), Item(TypeKey(ty), v)>> :
        v \in TypeValues(ty), w \in OtherValues}

RawBlockInputs ==
    UNION {{[id |-> 1, type |-> ty, has_children |-> h, items |-> its] :
                h \in BOOLEAN, its \in ItemLists(ty)} : ty \in BlockTypes}

InitExtract ==
    /\ pc = "extract"
    /\ in_block \in RawBlockInputs
    /\ out_block = Idle
    /\ parent = <<>>
    /\ pageSize = 1
    /\ shift = 0
    /\ wellFormed = TRUE
    /\ details = Idle
    /\ SummarizerIdle
    /\ all_pages = <<>>
    /\ has_more = FALSE
    /\ start_cursor = None
    /\ raw_pages = <<>>
    /\ i = 1
    /\ stack = <<>>
    /\ processed_pages = <<>>
    /\ flat = <<>>
    /\ saved = <<>>
    /\ reqlog = <<>>

\* A call of extract_block_content(in_block).
Extract ==
    /\ pc = "extract"
    /\ out_block' = extract_block_content(in_block)
    /\ pc' = "extracted"
    /\ UNCHANGED <<in_block, parent, pageSize, shift, wellFormed, details, summarizerVars, all_pages, has_more,
                   start_cursor, raw_pages, i, stack, processed_pages, flat,
                   saved, reqlog>>

\* extract_simple_content's loop body on the record just extracted, the
\* entry's contents being empty before it.
Filter ==
    /\ pc = "extracted"
    /\ ~Raised(out_block)
    /\ processed_pages' = <<[contents |-> AppendContent(<<>>, out_block)]>>
    /\ pc' = "filtered"
    /\ UNCHANGED <<in_block, out_block, parent, pageSize, shift, wellFormed, details, summarizerVars, all_pages,
                   has_more, start_cursor, raw_pages, i, stack, flat, saved,
                   reqlog>>

NextExtract == Extract \/ Filter

SpecExtract == InitExtract /\ [][NextExtract]_vars

SpecSiblings == InitSiblings /\ [][Next]_vars

\* A run over one page: the remote holds a single tree.
TreeForests == {f \in AllForests : f # <<>> /\ \A n \in 2..Len(f) : f[n] # Database}

InitTree ==
    /\ parent \in TreeForests
    /\ pageSize \in 1..MaxPageSize
    /\ shift = 0
    /\ wellFormed = TRUE
    /\ details = Idle
    /\ SummarizerIdle
    /\ InitClient

SpecTree == InitTree /\ [][Next]_vars

\* A run against a remote that is not well formed, over a small forest.
InitLoose ==
    /\ parent \in {f \in AllForests : Len(f) <= MaxLooseNodes}
    /\ pageSize \in 1..MaxPageSize
    /\ shift = 0
    /\ wellFormed = FALSE
    /\ details = Idle
    /\ SummarizerIdle
    /\ InitClient

SpecLoose == InitLoose /\ [][Next]_vars

\* A page over a chain of blocks, each the only child of the one before.
Chain(n) == [j \in 1..n |-> j - 1]

\* The single trees of fewer than MaxNodes nodes, and the chain of MaxNodes
\* nodes.
SmallTreeForests ==
    {f \in TreeForests : Len(f) < MaxNodes \/ f = Chain(MaxNodes)}

InitSmallTree ==
    /\ parent \in SmallTreeForests
    /\ pageSize \in 1..MaxPageSize
    /\ shift = 0
    /\ wellFormed = TRUE
    /\ details = Idle
    /\ SummarizerIdle
    /\ InitClient

\* The interpreter keeps running the one thread of the program, and every
\* request comes back, with a response or with an exception.
SpecFair == InitSmallTree /\ [][Next]_vars /\ WF_vars(Next)

\* ------------------------------------- get_page_blocks, extract_page_details
\* A call of extract_page_details on the page page_id, at the head of the
\* loop of get_page_blocks.  `requests` is the history of the requests the
\* call issued.
NewDetails(page_id) ==
    [page_id |-> page_id, phase |-> "loop", all_blocks |-> <<>>,
     has_more |-> TRUE, start_cursor |-> None, requests |-> <<>>,
     content |-> <<>>]

\* The for loop of extract_page_details over the raw blocks: the extracted
\* record of a block is appended if its content is not empty.
RECURSIVE DetailsContent(_)
DetailsContent(blocks) ==
    IF blocks = <<>> THEN <<>>
    ELSE LET block_content == extract_block_content(Head(blocks))
         IN  IF block_content.content # ""
             THEN <<block_content>> \o DetailsContent(Tail(blocks))
             ELSE DetailsContent(Tail(blocks))

\* Once run() is over, a caller hands one of the fetched pages to
\* extract_page_details, which calls get_page_blocks(page_id).
CallPageDetails ==
    /\ pc = "done"
    /\ details = Idle
    /\ SummarizerIdle
    /\ \E k \in 1..Len(raw_pages) : details' = NewDetails(RawPage(raw_pages[k]).id)
    /\ UNCHANGED <<summarizerVars, in_block, out_block, parent, pageSize, shift,
                   wellFormed, pc, all_pages, has_more, start_cursor, raw_pages, i, stack,
                   processed_pages, flat, saved, reqlog>>

\* A bug: the children of the blocks of the batch are fetched too and put
\* after them.
PageBlocksOKDescends ==
    /\ details # Idle
    /\ details.phase = "loop"
    /\ details.has_more
    /\ LET cursor == RequestCursor(details.start_cursor)
       IN  \E data \in ListChildren(details.page_id, cursor) :
               details' =
                   [details EXCEPT
                        !.all_blocks = @ \o data.results \o
                            (IF data.results = <<>> THEN <<>>
                             ELSE Kids(data.results[1])),
                        !.has_more = NextHasMore(data),
                        !.start_cursor = NextCursor(data),
                        !.requests = Append(@, [target |-> details.page_id,
                                                cursor |-> cursor, ok |-> TRUE])]
    /\ UNCHANGED <<summarizerVars, in_block, out_block, parent, pageSize, shift,
                   wellFormed, pc, all_pages, has_more, start_cursor, raw_pages, i, stack,
                   processed_pages, flat, saved, reqlog>>

\* One pass of the while loop of get_page_blocks: the request succeeds and
\* the batch is put after the blocks gathered so far.
PageBlocksOK ==
    /\ details # Idle
    /\ details.phase = "loop"
    /\ details.has_more
    /\ LET cursor == RequestCursor(details.start_cursor)
       IN  \E data \in ListChildren(details.page_id, cursor) :
               details' =
                   [details EXCEPT
                        !.all_blocks = @ \o data.results,
                        !.has_more = NextHasMore(data),
                        !.start_cursor = NextCursor(data),
                        !.requests = Append(@, [target |-> details.page_id,
                                                cursor |-> cursor, ok |-> TRUE])]
    /\ UNCHANGED <<summarizerVars, in_block, out_block, parent, pageSize, shift,
                   wellFormed, pc, all_pages, has_more, start_cursor, raw_pages, i, stack,
                   processed_pages, flat, saved, reqlog>>

\* The request fails: the handler prints and breaks out of the loop.
PageBlocksFail ==
    /\ details # Idle
    /\ details.phase = "loop"
    /\ details.has_more
    /\ details' =
           [details EXCEPT
                !.phase = "broke",
                !.requests = Append(@, [target |-> details.page_id,
                                        cursor |-> RequestCursor(details.start_cursor),
                                        ok |-> FALSE])]
    /\ UNCHANGED <<summarizerVars, in_block, out_block, parent, pageSize, shift,
                   wellFormed, pc, all_pages, has_more, start_cursor, raw_pages, i, stack,
                   processed_pages, flat, saved, reqlog>>

\* get_page_blocks returns all_blocks and extract_page_details runs its for
\* loop over them; an exception of the extractor leaves the call.
ExtractDetails ==
    /\ details # Idle
    /\ \/ details.phase = "loop" /\ ~details.has_more
       \/ details.phase = "broke"
    /\ LET blocks == RawBlocks(details.all_blocks)
       IN  details' =
               IF AnyRaises(blocks)
               THEN [details EXCEPT !.phase = "raised"]
               ELSE [details EXCEPT !.phase = "returned",
                                    !.content = DetailsContent(blocks)]
    /\ UNCHANGED <<summarizerVars, in_block, out_block, parent, pageSize, shift,
                   wellFormed, pc, all_pages, has_more, start_cursor, raw_pages, i, stack,
                   processed_pages, flat, saved, reqlog>>

\* A run over one page, followed by a call of extract_page_details.
InitDetails ==
    /\ parent \in TreeForests
    /\ pageSize \in 1..MaxPageSize
    /\ shift \in Shifts
    /\ wellFormed = TRUE
    /\ details = Idle
    /\ SummarizerIdle
    /\ InitClient

NextDetails ==
    \/ Next
    \/ CallPageDetails
    \/ PageBlocksOK
    \/ PageBlocksFail
    \/ ExtractDetails

SpecDetails == InitDetails /\ [][NextDetails]_vars

\* ------------------------------------------------------ summarize_standups
MaxStandups == 3

\* len(summary) < 50
MinSummaryLength == 50

\* A standup of the input file is [has_projectName, projectName,
\* contents_kind, contents]: the "contents" key holds a list, holds null or
\* is absent.
Standup(has_name, name, contents_kind, contents) ==
    [has_projectName |-> has_name, projectName |-> name,
     contents_kind |-> contents_kind, contents |-> contents]

StandupPalette ==
    {Standup(TRUE, "Apollo", "list", <<"Fix bug">>),
     Standup(FALSE, Missing, "list", <<>>),
     Standup(TRUE, "", "absent", <<>>),
     Standup(TRUE, "Apollo", "null", <<>>)}

RECURSIVE StandupLists(_)
StandupLists(n) ==
    IF n = 0 THEN {<<>>}
    ELSE LET shorter == StandupLists(n - 1)
         IN  shorter \cup {Append(l, st) : l \in {x \in shorter : Len(x) = n - 1},
                                          st \in StandupPalette}

\* What the generator gives back, after the prompt is cut off and the text
\* stripped: a text and its length.
Summaries ==
    {[text |-> "- Resolved a critical bug in the rental flow", length |-> 60],
     [text |-> "- done", length |-> 6]}

\* standup.get('projectName', 'Unknown Project')
ProjectNameOf(standup) ==
    IF standup.has_projectName THEN standup.projectName ELSE "Unknown Project"

\* standup.get('contents', [])
ContentsOf(standup) ==
    IF standup.contents_kind = "absent"
    THEN [kind |-> "list", items |-> <<>>]
    ELSE [kind |-> standup.contents_kind, items |-> standup.contents]

\* if len(summary) < 50 or "Project:" in summary, every "Project:" having
\* been replaced away in the line before.
TooShort(summary) == summary.length < MinSummaryLength

SummarizedEntry(name, summary) == [projectName |-> name, work |-> summary.text]

\* main() loads the file and the model and calls process_standups.
LoadStandups ==
    /\ sumpc = "start"
    /\ sumpc' = "loop"
    /\ UNCHANGED <<fetcherVars, standups, si, project_name, summarized_standups,
                   written, generated>>

\* load_standups or setup_local_model fails: sys.exit(1).
LoadFail ==
    /\ sumpc = "start"
    /\ sumpc' = "exit"
    /\ UNCHANGED <<fetcherVars, standups, si, project_name, summarized_standups,
                   written, generated>>

\* The next pass of the for loop of process_standups, up to the first call
\* of the generator in summarize_with_ai; the join over contents that are
\* null raises TypeError ahead of the try block.
NextStandup ==
    /\ sumpc = "loop"
    /\ si <= Len(standups)
    /\ project_name' = ProjectNameOf(standups[si])
    /\ sumpc' = IF ContentsOf(standups[si]).kind = "null" THEN "raised" ELSE "generate"
    /\ UNCHANGED <<fetcherVars, standups, si, summarized_standups, written, generated>>

\* The generator returns a text: it is the summary unless it is too short,
\* in which case the generator is called again with the simpler prompt.
GenerateOK ==
    /\ sumpc = "generate"
    /\ generated' = Append(generated, [standup |-> si, ok |-> TRUE])
    /\ \E summary \in Summaries :
          IF TooShort(summary)
          THEN /\ sumpc' = "retry"
               /\ UNCHANGED <<si, summarized_standups>>
          ELSE /\ summarized_standups' =
                      Append(summarized_standups, SummarizedEntry(project_name, summary))
               /\ si' = si + 1
               /\ sumpc' = "loop"
    /\ UNCHANGED <<fetcherVars, standups, project_name, written>>

\* The second call returns: its text is the summary, whatever its length.
RetryOK ==
    /\ sumpc = "retry"
    /\ generated' = Append(generated, [standup |-> si, ok |-> TRUE])
    /\ \E summary \in Summaries :
          summarized_standups' =
              Append(summarized_standups, SummarizedEntry(project_name, summary))
    /\ si' = si + 1
    /\ sumpc' = "loop"
    /\ UNCHANGED <<fetcherVars, standups, project_name, written>>

\* A bug: the handler swallows the exception and the entry gets an empty
\* summary (return "").
GenerateFailReturnsEmpty ==
    /\ sumpc \in {"generate", "retry"}
    /\ generated' = Append(generated, [standup |-> si, ok |-> FALSE])
    /\ summarized_standups' =
           Append(summarized_standups, [projectName |-> project_name, work |-> ""])
    /\ si' = si + 1
    /\ sumpc' = "loop"
    /\ UNCHANGED <<fetcherVars, standups, project_name, written>>

\* A call of the generator raises: the handler prints and raises again,
\* and neither process_standups nor main() catches the exception.
GenerateFail ==
    /\ sumpc \in {"generate", "retry"}
    /\ generated' = Append(generated, [standup |-> si, ok |-> FALSE])
    /\ sumpc' = "raised"
    /\ UNCHANGED <<fetcherVars, standups, si, project_name, summarized_standups, written>>

\* The for loop is over: process_standups returns and main() calls
\* save_summaries.
EndStandups ==
    /\ sumpc = "loop"
    /\ si > Len(standups)
    /\ sumpc' = "save"
    /\ UNCHANGED <<fetcherVars, standups, si, project_name, summarized_standups,
                   written, generated>>

\* save_summaries writes the file.
SaveSummariesOK ==
    /\ sumpc = "save"
    /\ written' = Append(written, [summaries |-> summarized_standups, ok |-> TRUE])
    /\ sumpc' = "done"
    /\ UNCHANGED <<fetcherVars, standups, si, project_name, summarized_standups, generated>>

\* save_summaries fails: sys.exit(1).
SaveSummariesFail ==
    /\ sumpc = "save"
    /\ written' = Append(written, [summaries |-> summarized_standups, ok |-> FALSE])
    /\ sumpc' = "exit"
    /\ UNCHANGED <<fetcherVars, standups, si, project_name, summarized_standups, generated>>

\* main() of summarize_standups.py over an input file, the fetcher at rest.
InitSummarize ==
    /\ standups \in StandupLists(MaxStandups)
    /\ sumpc = "start"
    /\ si = 1
    /\ project_name = ""
    /\ summarized_standups = <<>>
    /\ written = <<>>
    /\ generated = <<>>
    /\ parent = <<>>
    /\ pageSize = 1
    /\ shift = 0
    /\ wellFormed = TRUE
    /\ details = Idle
    /\ InitClient

NextSummarize ==
    \/ LoadStandups
    \/ LoadFail
    \/ NextStandup
    \/ GenerateOK
    \/ RetryOK
    \/ GenerateFail
    \/ EndStandups
    \/ SaveSummariesOK
    \/ SaveSummariesFail

SpecSummarize == InitSummarize /\ [][NextSummarize]_vars

\* ================================================================== claims
\* The requests of the database query, in the order they were issued.
IsQuery(r) == r.target = Database

QueryLog == SelectSeq(reqlog, IsQuery)

QueryFailed == \E k \in 1..Len(QueryLog) : ~QueryLog[k].ok

\* fetch_done_pages has returned to run().
FetchReturned == pc \in {"run", "save", "done", "exit"} /\ ~QueryFailed

\* The results arrays of a log, one after the other.
RECURSIVE ConcatResults(_)
ConcatResults(log) ==
    IF log = <<>> THEN <<>>
    ELSE ConcatResults(SubSeq(log, 1, Len(log) - 1)) \o log[Len(log)].results

Range(seq) == {seq[j] : j \in 1..Len(seq)}

\* The pre-order flattening of the sub-trees of the nodes of a list.
RECURSIVE PreOrderList(_)
PreOrderList(list) ==
    IF list = <<>> THEN <<>>
    ELSE <<Head(list)>> \o PreOrderList(Kids(Head(list))) \o PreOrderList(Tail(list))

\* The pre-order flattening of what is below node n.
PreOrder(n) == PreOrderList(Kids(n))

\* A request for the children of n, or of a node below n, has failed.
FailedBelow(n) ==
    \E k \in 1..Len(reqlog) :
        ~reqlog[k].ok /\ reqlog[k].target \in ({n} \cup Range(PreOrder(n)))

\* C1: when no query request fails, fetch_done_pages returns exactly the
\* concatenation of the results of all the responses, in response order (so
\* every remote page once, in the remote's order), and the response with
\* has_more false is the last request it issues.
C1_FetchConcatenatesResults ==
    /\ pc = "fetch" /\ ~QueryFailed => all_pages = ConcatResults(QueryLog)
    /\ FetchReturned =>
        /\ raw_pages = ConcatResults(QueryLog)
        /\ raw_pages = Kids(Database)
        /\ QueryLog # <<>>
        /\ \A k \in 1..Len(QueryLog) :
              ~QueryLog[k].has_more <=> k = Len(QueryLog)

\* A chain of three responses has been fetched and returned.
C1_Witness ==
    /\ FetchReturned
    /\ Len(QueryLog) >= 3
    /\ Len(raw_pages) >= 3

\* C2: when every children fetch below a node succeeds, the call of
\* get_all_blocks_recursive for it returns the pre-order flattening of the
\* sub-tree: as many blocks as the sub-tree has, each block with children
\* immediately followed by its first child; A[B[C,D],E] gives [A,B,C,D,E].
C2_FlattenIsPreOrder ==
    /\ \A d \in 1..Len(stack) :
          Returning(stack[d]) /\ ~FailedBelow(stack[d].page_id) =>
              LET out == stack[d].all_blocks
                  n == stack[d].page_id
              IN  /\ out = PreOrder(n)
                  /\ Len(out) = Cardinality(Range(PreOrder(n)))
                  /\ \A j \in 1..Len(out) :
                        Kids(out[j]) # <<>> =>
                            j < Len(out) /\ out[j + 1] = Kids(out[j])[1]
    /\ \A k \in 1..Len(flat) :
          ~FailedBelow(raw_pages[k]) => flat[k] = PreOrder(raw_pages[k])
    /\ parent = ExampleForest /\ Len(flat) = 1 /\ ~FailedBelow(1) =>
          flat[1] = <<2, 3, 5, 6, 4>>

\* The page whose tree is A[B[C,D],E] has been flattened without a failure.
C2_Witness ==
    /\ parent = ExampleForest
    /\ pageSize = 1
    /\ Len(flat) = 1
    /\ ~FailedBelow(1)
    /\ flat[1] = <<2, 3, 5, 6, 4>>

\* C3: once a database-query request has failed, on the first call or on a
\* later one, the run is aborted: fetch_done_pages has returned nothing, no
\* page is processed, no children request is issued and save_to_json is never
\* called.
C3_QueryFailureAborts ==
    QueryFailed =>
        /\ pc = "exit"
        /\ raw_pages = <<>>
        /\ stack = <<>>
        /\ processed_pages = <<>>
        /\ saved = <<>>
        /\ \A k \in 1..Len(reqlog) : IsQuery(reqlog[k])
        /\ ~QueryLog[Len(QueryLog)].ok

\* A later request of the chain failed, after pages had been accumulated.
C3_Witness ==
    /\ QueryFailed
    /\ Len(QueryLog) >= 2
    /\ all_pages # <<>>
    /\ pc = "exit"

\* The children of n that the successful responses of its call delivered.
Delivered(n) ==
    ConcatResults(SelectSeq(reqlog, LAMBDA r : r.target = n /\ r.ok))

\* What the responses logged so far let a call for the nodes of a list
\* gather: each delivered block, then what was gathered below it.
RECURSIVE GatheredList(_, _)
GatheredList(list, depth) ==
    IF list = <<>> \/ depth = 0 THEN <<>>
    ELSE <<Head(list)>> \o GatheredList(Delivered(Head(list)), depth - 1)
                        \o GatheredList(Tail(list), depth)

Gathered(n) == GatheredList(Delivered(n), Len(parent))

ChildrenFailures == {k \in 1..Len(reqlog) : ~reqlog[k].ok /\ ~IsQuery(reqlog[k])}

SaveFailed == saved # <<>> /\ ~saved[Len(saved)].ok

\* C4: a failed children request does not abort the run; the call that made
\* it returns what the earlier successful responses of that call delivered,
\* with what was gathered below each delivered block, the failing node stays
\* in its caller's output followed by just that, and no further request for
\* the node is issued.
C4_ChildrenFailureDegrades ==
    /\ stack # <<>> /\ Returning(Top) => Top.all_blocks = Gathered(Top.page_id)
    /\ \A k \in 1..Len(flat) : flat[k] = Gathered(raw_pages[k])
    /\ \A k \in ChildrenFailures :
          \A l \in (k + 1)..Len(reqlog) : reqlog[l].target # reqlog[k].target
    /\ ChildrenFailures # {} /\ pc = "exit" => SaveFailed

\* The run ended in success although the second request for the children of
\* a block failed: the block and its first children are in the output.
C4_Witness ==
    /\ pc = "done"
    /\ \E k \in ChildrenFailures :
          /\ reqlog[k].cursor # None
          /\ \E j \in 1..Len(flat) :
                /\ reqlog[k].target \in Range(flat[j])
                /\ Delivered(reqlog[k].target) # <<>>
                /\ Range(Delivered(reqlog[k].target)) \subseteq Range(flat[j])
                /\ Range(Kids(reqlog[k].target)) \ Range(flat[j]) # {}

\* The output for sibling t of the page when the one failed request was for
\* the children of s: t, then all of t's sub-tree, or for s itself only the
\* children delivered before the failure.
SiblingPart(t, s) ==
    <<t>> \o (IF t = s THEN Delivered(s) ELSE PreOrder(t))

\* C5: on a page with three top-level siblings that each have children, when
\* exactly one request fails and it is a children fetch of one sibling, the
\* output holds the three siblings in order, each of the other two followed
\* by its complete sub-tree, and the run is not aborted.
C5_OneSiblingFailure ==
    \A k \in ChildrenFailures :
        (Cardinality(ChildrenFailures) = 1 /\ reqlog[k].target \in {2, 3, 4}) =>
            LET s == reqlog[k].target
            IN  /\ Len(flat) = 1 =>
                    /\ flat[1] = SiblingPart(2, s) \o SiblingPart(3, s) \o SiblingPart(4, s)
                    /\ Len(Delivered(s)) < Len(Kids(s))
                    /\ processed_pages[1].id = 1
                /\ pc = "exit" => SaveFailed
                /\ pc \in {"save", "done"} => Len(flat) = 1

\* The children fetch of the middle sibling alone failed and the page was
\* written with the full sub-trees of the first and the third sibling.
C5_Witness ==
    /\ pc = "done"
    /\ Cardinality(ChildrenFailures) = 1
    /\ \E k \in ChildrenFailures : reqlog[k].target = 3
    /\ Len(Kids(2)) = 2
    /\ Len(Kids(4)) = 2
    /\ flat = << <<2>> \o Kids(2) \o <<3>> \o <<4>> \o Kids(4) >>

\* The block types the claims name as known.
NamedTypes ==
    {"to_do", "paragraph", "heading_1", "heading_2", "heading_3",
     "bulleted_list_item", "numbered_list_item", "toggle", "quote", "code",
     "callout"}

\* The plain text of the runs of an array, one after the other, a run with
\* no plain_text counting as empty.
RECURSIVE TextOfRuns(_)
TextOfRuns(rt) ==
    IF rt = <<>> THEN ""
    ELSE TextOfRuns(SubSeq(rt, 1, Len(rt) - 1)) \o
         (IF rt[Len(rt)].has_plain_text THEN rt[Len(rt)].plain_text ELSE "")

\* The positions of the items of a raw block that are keyed by its type and
\* hold a sub-object with a rich_text array.
KeyedRichText(b) ==
    {j \in 1..Len(b.items) :
        /\ b.items[j].key = b.type
        /\ b.items[j].value.kind = "dict"
        /\ b.items[j].value.has_rich_text}

\* The positions of the items that hold a sub-object whose rich_text array
\* has some text.
TextItems(b) ==
    {j \in 1..Len(b.items) :
        /\ b.items[j].value.kind = "dict"
        /\ b.items[j].value.has_rich_text
        /\ TextOfRuns(b.items[j].value.rich_text) # ""}

\* C6: for a block of a known type whose type-keyed sub-object holds a
\* rich_text array, extract_block_content returns a record whose content is
\* the plain text of the runs in array order with nothing between them:
\* ["Hello, ", "world"] gives "Hello, world".
C6_KnownTypeConcatenatesRuns ==
    pc = "extracted" /\ in_block.type \in NamedTypes =>
        \A j \in KeyedRichText(in_block) :
            LET rt == in_block.items[j].value.rich_text
            IN  /\ ~Raised(out_block)
                /\ out_block.type = in_block.type
                /\ out_block.content = TextOfRuns(rt)
                /\ rt = <<Run("Hello, "), Run("world")>> =>
                      out_block.content = "Hello, world"

\* A paragraph with the runs "Hello, " and "world" has been extracted.
C6_Witness ==
    /\ pc = "extracted"
    /\ in_block.type = "paragraph"
    /\ in_block.items = <<Item("paragraph", Dict(<<Run("Hello, "), Run("world")>>))>>
    /\ out_block.content = "Hello, world"

\* C7 as stated: extract_block_content never raises, and a block of an
\* unrecognised type always gets content "".
C7_UnknownTypeAlwaysEmpty ==
    pc = "extracted" =>
        /\ ~Raised(out_block)
        /\ in_block.type \notin NamedTypes => out_block.content = ""

\* C7 as amended: extract_block_content never raises, whether the type is
\* known, unknown or missing and whether the type-keyed sub-object is
\* present, absent or without rich_text; a block of an unrecognised type
\* gets content "" exactly when none of its keys holds a sub-object whose
\* rich_text array has some text.
C7_TotalAndUnknownDegrades ==
    pc = "extracted" =>
        /\ ~Raised(out_block)
        /\ "content" \in DOMAIN out_block
        /\ out_block.type = (IF in_block.type = Missing THEN "unknown" ELSE in_block.type)
        /\ in_block.type \notin NamedTypes =>
              (out_block.content = "" <=> TextItems(in_block) = {})

\* A block of an unrecognised type, whose only sub-object has an empty
\* rich_text array, has been extracted to content "".
C7_Witness ==
    /\ pc = "extracted"
    /\ in_block.type = "image"
    /\ in_block.items = <<Item("other", Scalar), Item("image", Dict(<<>>))>>
    /\ ~Raised(out_block)
    /\ out_block.content = ""

\* The block types the claims name as substantive.
Substantive ==
    {"to_do", "bulleted_list_item", "numbered_list_item", "paragraph",
     "heading_1", "heading_2", "heading_3"}

\* Every rich_text array of the raw block is empty or absent.
NoRuns(b) ==
    \A j \in 1..Len(b.items) :
        b.items[j].value.kind = "dict" =>
            ~b.items[j].value.has_rich_text \/ b.items[j].value.rich_text = <<>>

\* The content of a raw block as the data model defines it: the text of the
\* runs of its type-keyed sub-object.
BlockText(b) ==
    IF KeyedRichText(b) = {} THEN ""
    ELSE TextOfRuns(b.items[CHOOSE j \in KeyedRichText(b) : TRUE].value.rich_text)

Contributes(b) == b.type \in Substantive /\ BlockText(b) # ""

\* The texts of the contributing blocks of a list of nodes, in list order.
RECURSIVE ExpectedContents(_)
ExpectedContents(ids) ==
    IF ids = <<>> THEN <<>>
    ELSE (IF Contributes(RawBlock(Head(ids)))
          THEN <<BlockText(RawBlock(Head(ids)))>> ELSE <<>>)
         \o ExpectedContents(Tail(ids))

\* C8: no entry's contents holds an empty string; a block whose rich_text
\* arrays are all empty or absent is extracted to content "" and, whatever
\* its type, adds no element to contents.
C8_NoEmptyContents ==
    \A k \in 1..Len(processed_pages) :
        LET contents == processed_pages[k].contents
        IN  /\ \A j \in 1..Len(contents) : contents[j] # ""
            /\ \A j \in 1..Len(flat[k]) :
                  NoRuns(RawBlock(flat[k][j])) =>
                      extract_block_content(RawBlock(flat[k][j])).content = ""
            /\ Len(contents) <=
                  Cardinality({j \in 1..Len(flat[k]) : ~NoRuns(RawBlock(flat[k][j]))})

\* A written page held a paragraph with an empty rich_text array and a list
\* item with no sub-object, next to blocks that did contribute.
C8_Witness ==
    /\ pc = "done"
    /\ \E k \in 1..Len(processed_pages) :
          /\ \E j \in 1..Len(flat[k]) :
                /\ RawBlock(flat[k][j]).type = "paragraph"
                /\ NoRuns(RawBlock(flat[k][j]))
          /\ \E j \in 1..Len(flat[k]) :
                /\ RawBlock(flat[k][j]).type = "bulleted_list_item"
                /\ NoRuns(RawBlock(flat[k][j]))
          /\ processed_pages[k].contents # <<>>
          /\ Len(processed_pages[k].contents) < Len(flat[k])

\* C9: the contents of a page's entry is exactly the texts of the flattened
\* blocks that are of one of the seven substantive types and have text, in
\* the order of the flattening (pre-order when no fetch failed); blocks of
\* any other type add nothing even when they have text.
C9_ContentsIsFilteredPreOrder ==
    /\ Len(processed_pages) = Len(flat)
    /\ \A k \in 1..Len(processed_pages) :
          /\ processed_pages[k].id = raw_pages[k]
          /\ processed_pages[k].contents = ExpectedContents(flat[k])
          /\ ~FailedBelow(raw_pages[k]) =>
                processed_pages[k].contents = ExpectedContents(PreOrder(raw_pages[k]))

\* A written page, fetched without a failure, held a toggle and a block of
\* an unknown type that both carry text, and contributing blocks around them.
C9_Witness ==
    /\ pc = "done"
    /\ \E k \in 1..Len(processed_pages) :
          /\ ~FailedBelow(raw_pages[k])
          /\ \E j \in 1..Len(flat[k]) :
                /\ RawBlock(flat[k][j]).type = "toggle"
                /\ BlockText(RawBlock(flat[k][j])) = "world"
          /\ \E j \in 1..Len(flat[k]) :
                /\ RawBlock(flat[k][j]).type = "image"
                /\ extract_block_content(RawBlock(flat[k][j])).content = "world"
          /\ Len(processed_pages[k].contents) >= 2
          /\ "world" \notin Range(processed_pages[k].contents)

\* A to_do block whose one run is "Fix bug".
IsFixBugToDo(b, c) ==
    /\ b.type = "to_do"
    /\ b.items = <<Item("to_do", ToDoDict(<<Run("Fix bug")>>, c))>>

\* How many of the first j blocks of a flattening contribute to contents.
KeptUpTo(ids, j) ==
    Cardinality({l \in 1..j : Contributes(RawBlock(ids[l]))})

\* C10: a to_do block with the text "Fix bug" is extracted to content
\* "Fix bug" whether it is checked or not, and its element in contents is the
\* plain string "Fix bug", the same for a checked and an unchecked one.
C10_ToDoDropsChecked ==
    \A k \in 1..Len(processed_pages) :
        \A j \in 1..Len(flat[k]) :
            \A c \in BOOLEAN :
                IsFixBugToDo(RawBlock(flat[k][j]), c) =>
                    /\ extract_block_content(RawBlock(flat[k][j])).content = "Fix bug"
                    /\ extract_block_content(RawBlock(flat[k][j])).checked =
                          (IF c THEN "True" ELSE "False")
                    /\ KeptUpTo(flat[k], j) \in 1..Len(processed_pages[k].contents)
                    /\ processed_pages[k].contents[KeptUpTo(flat[k], j)] = "Fix bug"

\* A written page held a checked and an unchecked "Fix bug" to_do, and its
\* contents is the string "Fix bug" twice.
C10_Witness ==
    /\ pc = "done"
    /\ \E k \in 1..Len(processed_pages) :
          /\ \E j \in 1..Len(flat[k]) : IsFixBugToDo(RawBlock(flat[k][j]), TRUE)
          /\ \E j \in 1..Len(flat[k]) : IsFixBugToDo(RawBlock(flat[k][j]), FALSE)
          /\ processed_pages[k].contents = <<"Fix bug", "Fix bug">>

\* The strings a project name can be: the option names of the remote's
\* pages, and the empty string.
ProjectNames == {"", "Apollo"}

\* The "Project" property of the raw page is missing, is not of type select,
\* or has a null select value.
ProjectUnset(page) ==
    \/ ~page.project.present
    \/ page.project.type # "select"
    \/ ~page.project.has_select

\* C11: the projectName of every entry built from a raw page is present and
\* is a string, never null: "" when the "Project" property is missing, is not
\* of type select or has a null select value, and the option's name when a
\* select option with a name is set.
C11_ProjectNameNeverNull ==
    \A k \in 1..Len(processed_pages) :
        LET entry == processed_pages[k]
            page == RawPage(raw_pages[k])
        IN  /\ "projectName" \in DOMAIN entry
            /\ entry.projectName # Missing
            /\ entry.projectName \in ProjectNames
            /\ ProjectUnset(page) => entry.projectName = ""
            /\ ~ProjectUnset(page) /\ page.project.name # Missing =>
                  entry.projectName = page.project.name

\* A written run held a page with a null select value, a page with no
\* "Project" property and a page whose "Project" is not a select, and each
\* got the project name "".
C11_Witness ==
    /\ pc = "done"
    /\ \E k \in 1..Len(processed_pages) :
          LET prj == RawPage(raw_pages[k]).project
          IN  prj.present /\ prj.type = "select" /\ ~prj.has_select
              /\ processed_pages[k].projectName = ""
    /\ \E k \in 1..Len(processed_pages) :
          ~RawPage(raw_pages[k]).project.present
          /\ processed_pages[k].projectName = ""
    /\ \E k \in 1..Len(processed_pages) :
          LET prj == RawPage(raw_pages[k]).project
          IN  prj.present /\ prj.type = "multi_select"
              /\ processed_pages[k].projectName = ""

\* The requests of one pagination loop: those for the children of node t, or
\* the database query when t is the database.  A node is fetched by one call.
TargetLog(t) == SelectSeq(reqlog, LAMBDA r : r.target = t)

Targets == {Database} \cup Nodes

\* C12: in the query loop and in every children loop, the first request of
\* the call carries no cursor and every later request carries exactly the
\* next_cursor of the response just before it in the same call.
C12_CursorChain ==
    \A t \in Targets :
        LET log == TargetLog(t)
        IN  \A k \in 1..Len(log) :
                IF k = 1
                THEN log[k].cursor = None
                ELSE /\ log[k - 1].ok
                     /\ log[k - 1].next_cursor # None
                     /\ log[k].cursor = log[k - 1].next_cursor

\* A run whose query took three requests and whose children fetch of some
\* node took two has been written.
C12_Witness ==
    /\ pc = "done"
    /\ Len(TargetLog(Database)) >= 3
    /\ TargetLog(Database)[3].cursor = 3
    /\ \E t \in Nodes :
          /\ Len(TargetLog(t)) >= 2
          /\ TargetLog(t)[2].ok
          /\ TargetLog(t)[2].cursor = TargetLog(t)[1].next_cursor

\* Every node of the remote, pages included, in depth-first pre-order.
GlobalOrder == PreOrderList(Kids(Database))

\* The nodes above n, up to its page.
RECURSIVE AncestorsOf(_)
AncestorsOf(n) ==
    IF parent[n] = Database THEN {}
    ELSE {parent[n]} \cup AncestorsOf(parent[n])

\* The nodes whose children were requested, in request order.
ChildrenTargets ==
    LET log == SelectSeq(reqlog, LAMBDA r : ~IsQuery(r))
    IN  [k \in 1..Len(log) |-> log[k].target]

\* C13: requests are issued one at a time and depth-first.  Only the
\* innermost call can issue a request, every caller being suspended inside
\* its for loop at the call for one of its own children; the requests for a
\* block and its whole sub-tree are consecutive, so none for a later sibling
\* or for the next batch of the parent's list comes in between; and a
\* request for a node that is earlier in pre-order than the node of a
\* previous request is always the continuation of an enclosing call.
C13_DepthFirstSequential ==
    LET t == ChildrenTargets
        order == GlobalOrder
        pos == [n \in Nodes |-> CHOOSE j \in 1..Len(order) : order[j] = n]
        above == [n \in Nodes |-> AncestorsOf(n)]
        sub == [b \in Nodes |-> {n \in Nodes : n = b \/ b \in above[n]}]
    IN  /\ \A d \in 1..(Len(stack) - 1) :
              /\ stack[d].phase = "body"
              /\ parent[stack[d + 1].page_id] = stack[d].page_id
        /\ \A b \in Nodes :
              \A k \in 1..(Len(t) - 1) :
                  t[k] \in sub[b] /\ t[k + 1] \notin sub[b] =>
                      \A m \in (k + 2)..Len(t) : t[m] \notin sub[b]
        /\ \A k \in 1..Len(t) : \A l \in (k + 1)..Len(t) :
              pos[t[l]] < pos[t[k]] => t[l] \in above[t[k]]

\* On a page whose two blocks each have a child and are served one per
\* batch, the first block's sub-tree was fetched before the second batch of
\* the page's list, and the second block's after it.
C13_Witness ==
    /\ pc = "done"
    /\ parent = <<Database, 1, 1, 2, 3>>
    /\ pageSize = 1
    /\ ChildrenTargets = <<1, 2, 1, 3>>
    /\ \A k \in 1..Len(reqlog) : reqlog[k].ok

\* The positions of the items that hold a sub-object with a rich_text array.
ArrayItems(b) ==
    {j \in 1..Len(b.items) :
        /\ b.items[j].value.kind = "dict"
        /\ b.items[j].value.has_rich_text}

First(S) == CHOOSE j \in S : \A l \in S : j <= l

\* The text of the first item, in enumeration order, among those at the
\* positions S; "" when there is none.
TextOfFirst(b, S) ==
    IF S = {} THEN "" ELSE TextOfRuns(b.items[First(S)].value.rich_text)

\* C14 as stated: a block of a type outside the dispatch list takes its
\* content from the first key, in enumeration order, whose value is a
\* sub-object containing a rich_text array, and gets "" when no key has one.
C14_FirstRichTextArray ==
    pc = "extracted" /\ in_block.type \notin NamedTypes =>
        out_block.content = TextOfFirst(in_block, ArrayItems(in_block))

\* C14 as amended: a block of a type outside the dispatch list takes its
\* content from the first key, in enumeration order, whose value is a
\* sub-object containing a rich_text array with some text, sub-objects whose
\* array is empty or has only empty runs being passed over; it gets "" when
\* no key has such a sub-object.
C14_FirstRichTextWithText ==
    pc = "extracted" /\ in_block.type \notin NamedTypes =>
        /\ ~Raised(out_block)
        /\ out_block.content = TextOfFirst(in_block, TextItems(in_block))

\* A block of an unknown type whose first sub-object has an empty rich_text
\* array and whose second has the text "world" has been extracted to "world".
C14_Witness ==
    /\ pc = "extracted"
    /\ in_block.type = "image"
    /\ in_block.items =
          <<Item("other", Dict(<<>>)), Item("image", Dict(<<Run("world")>>))>>
    /\ out_block.content = "world"

\* Some call of save_to_json could not write the file.
WriteFailed == \E k \in 1..Len(saved) : ~saved[k].ok

\* C15: when writing the output file fails, the run aborts with a failure
\* exit and success is never reported: run() returns no path and main does
\* not print the completion message; the write is not attempted again.
C15_WriteFailureAborts ==
    /\ WriteFailed => pc = "exit" /\ Len(saved) = 1
    /\ pc = "done" => saved # <<>> /\ ~WriteFailed

\* The pages were fetched and processed, and then the write failed.
C15_Witness ==
    /\ pc = "exit"
    /\ WriteFailed
    /\ processed_pages # <<>>
    /\ saved[1].pages = processed_pages

\* The requests that failed.
Failures == {k \in 1..Len(reqlog) : ~reqlog[k].ok}

\* C16: no request is retried.  After a request has failed no further
\* request for its target is issued, with the same cursor or another one:
\* after a failed query no request at all, after a failed children fetch
\* none for that node; and no target is asked twice for the same cursor.
C16_NoRetry ==
    /\ \A k \in Failures :
          /\ \A l \in (k + 1)..Len(reqlog) : reqlog[l].target # reqlog[k].target
          /\ IsQuery(reqlog[k]) => k = Len(reqlog)
    /\ \A k \in 1..Len(reqlog) : \A l \in (k + 1)..Len(reqlog) :
          reqlog[k].target = reqlog[l].target => reqlog[k].cursor # reqlog[l].cursor

\* A children fetch failed, requests for other nodes followed it, and the
\* run was written.
C16_Witness ==
    /\ pc = "done"
    /\ \E k \in Failures :
          /\ ~IsQuery(reqlog[k])
          /\ Len(reqlog) >= k + 2

\* The level of a node below its page: 0 for the page, 1 for its direct
\* children.
Level(n) == Cardinality(AncestorsOf(n))

Max(S) == CHOOSE x \in S : \A y \in S : y <= x

\* The nesting depth of the block tree of a page: the level of its deepest
\* block, 0 when the page is empty.
NestingDepth(p) == Max({Level(n) : n \in {p} \cup Range(PreOrder(p))})

\* The deepest recursion reached on a page: a call for a node of level l is
\* the (l + 1)-th nested call, the call for the page being the first.
DepthReached(p) ==
    Max({0} \cup {Level(reqlog[k].target) + 1 :
                     k \in {j \in 1..Len(reqlog) :
                               reqlog[j].target \in {p} \cup Range(PreOrder(p))}})

\* The calls in hand are the call for a page and, below it, the calls for
\* the chain of blocks down to the node being fetched.
StackIsAncestorChain ==
    \A d \in 1..Len(stack) :
        /\ Level(stack[d].page_id) = d - 1
        /\ d > 1 => parent[stack[d].page_id] = stack[d - 1].page_id

\* On a page traversed without a failed request every block is in the
\* output, every block with children was fetched, and the recursion went as
\* deep as the tree is nested.
FullDepthReached ==
    \A k \in 1..Len(flat) :
        ~FailedBelow(raw_pages[k]) =>
            /\ Range(flat[k]) = Range(PreOrder(raw_pages[k]))
            /\ \A n \in Range(flat[k]) : Kids(n) # <<>> => TargetLog(n) # <<>>
            /\ DepthReached(raw_pages[k]) =
                  Max({1, NestingDepth(raw_pages[k])})

\* Once the run is over no call is left in hand.
AllCallsReturned == pc \in {"done", "exit"} => stack = <<>>

\* C17: over a finite tree whose children lists are served in finite cursor
\* chains, the traversal terminates, whatever the nesting depth: every run
\* comes to its end with every call of get_all_blocks_recursive returned; no
\* depth limit cuts the traversal short, and the depth of the recursion is
\* the nesting depth of the tree.
C17_TraversalTerminates ==
    /\ [](StackIsAncestorChain /\ FullDepthReached /\ AllCallsReturned)
    /\ <>(pc \in {"done", "exit"})

\* A chain of blocks four levels deep has been traversed by four nested
\* calls and written.
C17_Witness ==
    /\ pc = "done"
    /\ parent = <<Database, 1, 2, 3, 4>>
    /\ flat = << <<2, 3, 4, 5>> >>
    /\ NestingDepth(1) = 4
    /\ DepthReached(1) = 4

\* The sort the query is to carry: last edited time, descending.
LastEditedDescending ==
    <<[property |-> "Last edited time", direction |-> "descending"]>>

\* The body filters on the property Status being equal to "Done".
FiltersStatusDone(body) ==
    /\ "filter" \in DOMAIN body
    /\ body.filter.property = "Status"
    /\ body.filter.status.equals = "Done"

\* C18: every database-query request, the first and every continuation,
\* carries the same constant filter (Status equals "Done") and the same sort
\* (last edited time, descending).
C18_QueryCarriesFilterAndSort ==
    \A k \in 1..Len(QueryLog) :
        LET body == QueryLog[k].body
        IN  /\ FiltersStatusDone(body)
            /\ "sorts" \in DOMAIN body
            /\ body.sorts = LastEditedDescending

\* The types an extracted record can have.
RecordTypes == (BlockTypes \ {Missing}) \cup {"unknown"}

\* The filter lets a block of type ty with some text into contents.
Admits(ty) == AppendContent(<<>>, [type |-> ty, content |-> "text"]) # <<>>

AdmittedTypes == {ty \in RecordTypes : Admits(ty)}

\* C19 as stated: the filter that builds contents admits exactly six block
\* types and discards the blocks of every other type.
C19_SixTypesAdmitted ==
    pc = "filtered" =>
        /\ Cardinality(AdmittedTypes) = 6
        /\ out_block.type \notin AdmittedTypes =>
              processed_pages[1].contents = <<>>

\* C19 as amended: the filter admits exactly seven block types (to_do,
\* bulleted_list_item, numbered_list_item, paragraph, heading_1, heading_2
\* and heading_3): a block of one of them adds its content when it has
\* some, and a block of any other type is discarded.
C19_SevenTypesAdmitted ==
    pc = "filtered" =>
        /\ Cardinality(AdmittedTypes) = 7
        /\ AdmittedTypes = Substantive
        /\ processed_pages[1].contents =
              (IF out_block.type \in Substantive /\ out_block.content # ""
               THEN <<out_block.content>> ELSE <<>>)

\* A heading_3 block with the text "world" has gone through the filter and
\* its content was admitted.
C19_Witness ==
    /\ pc = "filtered"
    /\ in_block.type = "heading_3"
    /\ out_block.content = "world"
    /\ processed_pages[1].contents = <<"world">>

\* a can be had from b by removing elements: the elements of a are in b, in
\* the same order, each element of b used at most once.
RECURSIVE IsSubsequence(_, _)
IsSubsequence(a, b) ==
    IF a = <<>> THEN TRUE
    ELSE IF b = <<>> THEN FALSE
         ELSE IF Head(a) = Head(b)
              THEN IsSubsequence(Tail(a), Tail(b))
              ELSE IsSubsequence(a, Tail(b))

\* C20: whatever children requests fail, what a call of
\* get_all_blocks_recursive has gathered and what it returns is a
\* subsequence of the failure-free pre-order output for the same node:
\* failures only remove blocks, they never reorder, duplicate or invent one.
C20_OutputIsSubsequence ==
    /\ \A d \in 1..Len(stack) :
          IsSubsequence(stack[d].all_blocks, PreOrder(stack[d].page_id))
    /\ \A k \in 1..Len(flat) :
          /\ IsSubsequence(flat[k], PreOrder(raw_pages[k]))
          /\ Cardinality(Range(flat[k])) = Len(flat[k])

\* A failed fetch below a page took blocks out of the middle of its output:
\* the written output is shorter than the pre-order and is not a prefix of it.
C20_Witness ==
    /\ pc = "done"
    /\ \E k \in 1..Len(flat) :
          LET full == PreOrder(raw_pages[k])
          IN  /\ FailedBelow(raw_pages[k])
              /\ flat[k] # <<>>
              /\ Len(flat[k]) < Len(full)
              /\ flat[k] # SubSeq(full, 1, Len(flat[k]))

\* The first request for the children of page p, the top-level fetch, failed.
TopLevelFetchFailed(p) ==
    TargetLog(p) # <<>> /\ ~TargetLog(p)[1].ok

\* C21: when the page query succeeds, what run() hands to save_to_json and
\* writes is exactly one entry per page that fetch_done_pages returned, in
\* the same order, whatever children fetches fail; a page whose top-level
\* children fetch fails is still emitted, with its id, title and projectName
\* and with empty contents; and the run ends in success unless the write
\* itself fails.
C21_OneEntryPerPage ==
    /\ pc \in {"save", "done"} =>
          /\ Len(SaveArg) = Len(raw_pages)
          /\ raw_pages = Kids(Database)
          /\ \A k \in 1..Len(raw_pages) :
                LET entry == SaveArg[k]
                    page == RawPage(raw_pages[k])
                IN  /\ entry.id = raw_pages[k]
                    /\ entry.title = ExtractTitle(page.name)
                    /\ entry.projectName = ExtractProjectName(page.project)
                    /\ TopLevelFetchFailed(raw_pages[k]) => entry.contents = <<>>
    /\ pc = "done" => saved = <<[pages |-> SaveArg, ok |-> TRUE]>>
    /\ pc = "exit" /\ ~QueryFailed => WriteFailed

\* A run of two pages was written in success although the top-level fetch
\* of one page failed: that page is there, with its title and no contents,
\* next to a page that has contents.
C21_Witness ==
    /\ pc = "done"
    /\ Len(saved[1].pages) = 2
    /\ \E k \in 1..2 :
          /\ TopLevelFetchFailed(raw_pages[k])
          /\ Kids(raw_pages[k]) # <<>>
          /\ saved[1].pages[k].contents = <<>>
          /\ saved[1].pages[k].title # ""
    /\ \E k \in 1..2 : saved[1].pages[k].contents # <<>>

\* The requests of one call, in the order they were issued.
CallLog(c) == SelectSeq(reqlog, LAMBDA r : r.call = c)

Calls == {reqlog[k].call : k \in 1..Len(reqlog)}

\* The response said has_more but the client read no usable cursor in it:
\* next_cursor was missing, null or empty.
Cursorless(r) == r.ok /\ r.has_more /\ r.next_cursor \in {None, EmptyCursor}

\* The loop of call c is over.
CallOver(c) ==
    IF c = 1 THEN pc # "fetch"
    ELSE \A d \in 1..Len(stack) : stack[d].call = c => Returning(stack[d])

\* C22: in both pagination loops only has_more decides whether another
\* request is issued.  A call goes on exactly as long as its last response
\* said has_more, with or without a cursor; after a response with has_more
\* and a missing, null or empty next_cursor the next request carries no
\* cursor and is the first request of the call over again, so that a
\* successful response to it holds the first results again; and the loop is
\* over only after a response without has_more or a failed request.
C22_OnlyHasMoreDecides ==
    \A c \in Calls :
        LET log == CallLog(c)
            last == log[Len(log)]
            first == Respond(Kids(log[1].target), None).results
        IN  /\ log[1] = reqlog[c]
            /\ log[1].cursor = None
            /\ "start_cursor" \notin DOMAIN log[1].body
            /\ \A k \in 2..Len(log) :
                  /\ log[k].target = log[1].target
                  /\ log[k - 1].ok /\ log[k - 1].has_more
                  /\ IF Cursorless(log[k - 1])
                     THEN /\ log[k].cursor = None
                          /\ log[k].body = log[1].body
                          /\ log[k].ok => log[k].results = first
                     ELSE /\ log[k].cursor = log[k - 1].next_cursor
                          /\ log[k].body.start_cursor = log[k - 1].next_cursor
            /\ last.ok /\ last.has_more => ~CallOver(c)
            /\ CallOver(c) => ~last.ok \/ ~last.has_more

\* The query got has_more with no cursor, asked the first request again
\* and accumulated the same page twice; the same happened in the children
\* loop of that page, whose first block is twice in its output; and the run
\* was written.
C22_Witness ==
    /\ pc = "done"
    /\ Len(QueryLog) = 2
    /\ Cursorless(QueryLog[1])
    /\ QueryLog[2].body = QueryLog[1].body
    /\ parent = <<Database, Database, 1, 1>>
    /\ raw_pages = <<1, 1>>
    /\ flat[1] = <<3, 3>>
    /\ Len(saved[1].pages) = 2

\* fetch_done_pages has returned the empty list to run().
ReturnedNoPage == FetchReturned /\ raw_pages = <<>>

\* C23: when fetch_done_pages returns an empty list, run() still calls
\* save_to_json, once and with the empty list, and returns the path it gets
\* from it; no children request is issued in that run.
C23_EmptyRunStillSaves ==
    ReturnedNoPage =>
        /\ \A k \in 1..Len(reqlog) : IsQuery(reqlog[k])
        /\ stack = <<>> /\ processed_pages = <<>> /\ flat = <<>>
        /\ pc \in {"save", "done", "exit"}
        /\ pc = "save" => saved = <<>> /\ SaveArg = <<>>
        /\ pc \in {"done", "exit"} => Len(saved) = 1 /\ saved[1].pages = <<>>
        /\ pc = "done" <=> saved # <<>> /\ saved[1].ok

\* The query found no page, and the empty list was written.
C23_Witness ==
    /\ pc = "done"
    /\ ReturnedNoPage
    /\ Len(reqlog) = 1
    /\ saved = <<[pages |-> <<>>, ok |-> TRUE]>>

\* The "Name" property of the k-th fetched page.
NameOf(k) == RawPage(raw_pages[k]).name

\* The title array a title is read from: the one of a "Name" property that is
\* present and of type title, else none.
TitleArray(name_prop) ==
    IF name_prop.present /\ name_prop.type = "title" THEN name_prop.title ELSE <<>>

\* C24: the title of an entry is the plain_text of the first run of the
\* "Name" title array alone, whatever the later runs hold, and "" when "Name"
\* is missing, is not of type title or has an empty title array.
C24_TitleIsFirstRun ==
    \A k \in 1..Len(processed_pages) :
        LET runs == TitleArray(NameOf(k))
            title == processed_pages[k].title
        IN  /\ runs = <<>> => title = ""
            /\ runs # <<>> =>
                  /\ runs[1].has_plain_text => title = runs[1].plain_text
                  /\ ~runs[1].has_plain_text => title = ""
                  /\ Len(runs) > 1 /\ JoinPlainText(Tail(runs)) # "" =>
                        title # JoinPlainText(runs)

\* A finished run with a two-run title cut to its first run, a title array
\* whose first run has no text, and a "Name" that is not a title.
C24_Witness ==
    /\ pc = "done"
    /\ \E k \in 1..Len(processed_pages) :
          /\ Len(TitleArray(NameOf(k))) = 2
          /\ processed_pages[k].title = "Standup"
          /\ JoinPlainText(NameOf(k).title) = "Standup notes"
    /\ \E k \in 1..Len(processed_pages) :
          /\ NameOf(k).type = "rich_text"
          /\ NameOf(k).title # <<>>
          /\ processed_pages[k].title = ""
    /\ \E k \in 1..Len(processed_pages) :
          /\ TitleArray(NameOf(k)) # <<>>
          /\ ~NameOf(k).title[1].has_plain_text
          /\ processed_pages[k].title = ""

\* The extracted records of the blocks `ids` that have content, in order.
RecordsWithContent(ids) ==
    SelectSeq([j \in 1..Len(ids) |-> extract_block_content(RawBlock(ids[j]))],
              LAMBDA r : r.content # "")

\* The blocks of the filtered view of page p that lie below a block.
NestedInFilteredView(p) ==
    {b \in Nodes : /\ parent[b] \notin {Database, p}
                   /\ \E k \in 1..Len(flat) :
                         raw_pages[k] = p /\ \E j \in 1..Len(flat[k]) : flat[k][j] = b}

\* C25: extract_page_details requests the children of the page alone, never
\* those of a block; its content is, in response order, the extracted
\* records of the direct children it fetched that have content, whatever
\* their type, and all direct children are fetched unless a request fails;
\* no nested block of the filtered view is among them.
C25_DetailsHoldDirectChildren ==
    details # Idle =>
        LET page == details.page_id
            fetched == details.all_blocks
        IN  /\ \A j \in 1..Len(details.requests) : details.requests[j].target = page
            /\ Len(fetched) <= Len(Kids(page))
            /\ fetched = SubSeq(Kids(page), 1, Len(fetched))
            /\ (details.phase = "loop" /\ ~details.has_more) => fetched = Kids(page)
            /\ details.phase = "returned" =>
                  /\ details.content = RecordsWithContent(fetched)
                  /\ \A j \in 1..Len(details.content) :
                        /\ parent[details.content[j].id] = page
                        /\ details.content[j].id \notin NestedInFilteredView(page)
                  /\ (\A j \in 1..Len(details.requests) : details.requests[j].ok) =>
                        details.content = RecordsWithContent(Kids(page))

\* The details of a page whose children came in two batches: a toggle with
\* children and an image are in `content`, while the paragraph below the
\* toggle, which the filtered view holds, is not.
C25_Witness ==
    /\ details # Idle
    /\ details.phase = "returned"
    /\ Len(details.requests) = 2
    /\ Len(details.content) = 2
    /\ details.content[1].type = "toggle"
    /\ details.content[1].has_children
    /\ details.content[2].type = "image"
    /\ NestedInFilteredView(details.page_id) # {}
    /\ processed_pages[1].contents = <<"Hello, world">>

\* A call of the generator has failed.
GenerationFailed == \E j \in 1..Len(generated) : ~generated[j].ok

\* C26: the entries of process_standups are, in input order, one per standup
\* handled, each with that standup's projectName, 'Unknown Project' when the
\* key is absent; once process_standups has returned there is one per input
\* standup.  When a call of the generator fails, the exception leaves
\* main(): it is the last call of the generator, no later standup is taken
\* up and save_summaries is never called.
C26_OneSummaryPerStandup ==
    /\ Len(summarized_standups) <= Len(standups)
    /\ \A j \in 1..Len(summarized_standups) :
          summarized_standups[j].projectName =
              (IF standups[j].has_projectName
               THEN standups[j].projectName
               ELSE "Unknown Project")
    /\ sumpc \in {"save", "done"} => Len(summarized_standups) = Len(standups)
    /\ sumpc = "raised" => written = <<>> /\ Len(summarized_standups) = si - 1
    /\ \A j \in 1..Len(written) :
          /\ written[j].summaries = summarized_standups
          /\ Len(written[j].summaries) = Len(standups)
    /\ Len(written) <= 1
    /\ GenerationFailed =>
          /\ sumpc = "raised"
          /\ written = <<>>
          /\ ~generated[Len(generated)].ok
          /\ \A j \in 1..(Len(generated) - 1) : generated[j].ok
          /\ generated[Len(generated)].standup = si
          /\ Len(summarized_standups) = si - 1
          /\ \A j \in 1..Len(generated) : generated[j].standup <= si

\* The generator fails on the second of three standups, after an entry
\* for a standup with no projectName was built: nothing is written.
C26_Witness ==
    /\ sumpc = "raised"
    /\ GenerationFailed
    /\ Len(standups) = 3
    /\ si = 2
    /\ ~standups[1].has_projectName
    /\ summarized_standups =
           <<[projectName |-> "Unknown Project",
              work |-> "- Resolved a critical bug in the rental flow"]>>
    /\ written = <<>>

====
